---- MODULE Spec2Model ----
(***************************************************************************)
(* Model of calculate_environmental_scores (src/analytics_engine.py).      *)
(*                                                                         *)
(* One call of the function is a run of the state machine: Init is the     *)
(* state at entry (the caller's two frames and the buffer distance), and   *)
(* each numbered step of the function body is one action.                  *)
(*                                                                         *)
(* Geometry: road segments are horizontal line strings <<x1, x2>> on the   *)
(* x-axis (x1 = x2 is a zero-length segment) and trees are points on the   *)
(* same axis, so that the round-capped buffer of distance d > 0 meets the  *)
(* axis in the open interval (x1 - d, x2 + d) and has area                 *)
(* 2*d*(x2-x1) + pi*d^2; a buffer of distance d <= 0 is the empty polygon. *)
(*                                                                         *)
(* Floats: a float64 value is [k, n, d]: the exact rational n/d in lowest  *)
(* terms (k = "num"), NaN (k = "nan"), +inf (k = "inf"), or the natural    *)
(* logarithm of the integer n >= 2 (k = "ln").  np.pi is the rational      *)
(* PiNum/PiDen.                                                            *)
(***************************************************************************)
EXTENDS Integers, Sequences, FiniteSets, TLC

VARIABLES
    roads_gdf,           \* the caller's road frame: [crs, rows]
    trees_obj,           \* the tree frames [crs, columns, rows]: the caller's, and to_crs's copy
    trees_gdf,           \* the object the function's name trees_gdf is bound to
    buffer_size_meters,  \* the argument
    road_buffers,        \* rows of the buffer frame (step 1)
    joined_gdf,          \* rows of the spatial join (step 3)
    eco_scores,          \* the grouped aggregates, keyed by segment_id (step 4)
    roads_with_scores,   \* rows of the result frame (steps 5 to 8)
    pc                   \* the next step of the function body

vars == <<roads_gdf, trees_obj, trees_gdf, buffer_size_meters, road_buffers,
          joined_gdf, eco_scores, roads_with_scores, pc>>

-----------------------------------------------------------------------------
(* Bounds of the model *)

MaxRoads == 2
MaxTrees == 2
MaxCoord == 2

-----------------------------------------------------------------------------
(* float64 arithmetic *)

PiNum == 22
PiDen == 7

RECURSIVE GCD(_, _)
GCD(a, b) == IF b = 0 THEN a ELSE GCD(b, a % b)

Num(n, d) == LET g == GCD(n, d) IN [k |-> "num", n |-> n \div g, d |-> d \div g]
Flt(n) == [k |-> "num", n |-> n, d |-> 1]
Zero == [k |-> "num", n |-> 0, d |-> 1]
One == [k |-> "num", n |-> 1, d |-> 1]
NaN == [k |-> "nan", n |-> 0, d |-> 0]
Inf == [k |-> "inf", n |-> 1, d |-> 0]
Ln(m) == [k |-> "ln", n |-> m, d |-> 1]

IsNaN(a) == a.k = "nan"

\* a + b for non-negative floats
FAdd(a, b) ==
    IF IsNaN(a) \/ IsNaN(b) THEN NaN
    ELSE IF a.k = "inf" \/ b.k = "inf" THEN Inf
    ELSE Num(a.n * b.d + b.n * a.d, a.d * b.d)

\* a * b for non-negative floats
FMul(a, b) ==
    IF IsNaN(a) \/ IsNaN(b) THEN NaN
    ELSE IF a.k = "inf" \/ b.k = "inf"
         THEN (IF a = Zero \/ b = Zero THEN NaN ELSE Inf)
    ELSE Num(a.n * b.n, a.d * b.d)

\* a / b for non-negative floats, as numpy divides: x/0 is inf, 0/0 is NaN
FDiv(a, b) ==
    IF IsNaN(a) \/ IsNaN(b) THEN NaN
    ELSE IF a.k = "inf" THEN (IF b.k = "inf" THEN NaN ELSE Inf)
    ELSE IF b.k = "inf" THEN Zero
    ELSE IF b.n = 0 THEN (IF a.n = 0 THEN NaN ELSE Inf)
    ELSE Num(a.n * b.d, a.d * b.n)

\* a < b for two floats that are not NaN
FLess(a, b) ==
    CASE a.k = "inf" -> FALSE
      [] b.k = "inf" -> TRUE
      [] a.k = "ln" /\ b.k = "ln" -> a.n < b.n
      [] a.k = "ln" -> FALSE   \* the only rational beside a logarithm is 0
      [] b.k = "ln" -> a = Zero
      [] OTHER -> a.n * b.d < b.n * a.d

\* np.log1p of a non-negative count
log1p(c) == IF c.n = 0 THEN Zero ELSE Ln(c.n + 1)

RECURSIVE FSum(_)
FSum(s) == IF s = <<>> THEN Zero ELSE FAdd(Head(s), FSum(Tail(s)))

Range(s) == {s[i] : i \in DOMAIN s}

-----------------------------------------------------------------------------
(* Geometry and reference systems *)

RoadsCrs == "EPSG:32643"
OtherCrs == "EPSG:4326"

\* pyproj's transform of an x coordinate: the two systems differ by a shift
Transform(x, from, to) ==
    IF from = to THEN x
    ELSE IF to = RoadsCrs THEN x - 5 ELSE x + 5

\* GeoDataFrame.to_crs: a new frame, every point transformed
to_crs(frame, crs) ==
    [frame EXCEPT
        !.crs = crs,
        !.rows = [i \in DOMAIN frame.rows |->
                    [frame.rows[i] EXCEPT
                        !.geometry = Transform(@, frame.crs, crs)]]]

EmptyPolygon == [empty |-> TRUE, x1 |-> 0, x2 |-> 0, dist |-> 0]

\* GeoSeries.buffer of a line string <<x1, x2>>: empty unless distance > 0
buffer(line, distance) ==
    IF distance <= 0 THEN EmptyPolygon
    ELSE [empty |-> FALSE, x1 |-> line[1], x2 |-> line[2], dist |-> distance]

\* GeoSeries.area of a buffer polygon: 2*d*length + pi*d^2
area(poly) ==
    IF poly.empty THEN Zero
    ELSE FAdd(Flt(2 * poly.dist * (poly.x2 - poly.x1)),
              Num(PiNum * poly.dist * poly.dist, PiDen))

\* GeoSeries.length of a line string
length(line) == Flt(line[2] - line[1])

\* predicate='within': the point is in the polygon's interior
WithinOrTouches(point, poly) ==
    /\ ~poly.empty
    /\ poly.x1 - poly.dist <= point
    /\ point <= poly.x2 + poly.dist

within(point, poly) ==
    /\ ~poly.empty
    /\ poly.x1 - poly.dist < point
    /\ point < poly.x2 + poly.dist

-----------------------------------------------------------------------------
(* The inputs of a call *)

BufferSizes == {-1, 0, 1}
CanopyDiameters == {-1, 2}
\* a tree's botanical_name with its CO2_sequestered_kg; the two names differ
\* in case only
Species == {<<"ficus", 1>>, <<"Ficus", 2>>}

\* the row labels of a frame of n rows: the default RangeIndex 0..n-1, the
\* same reversed (a frame sorted descending), or 1..n (rows 1..n of a longer
\* frame, kept by a filter)
RowLabels(n) ==
    {[i \in 1..n |-> i - 1], [i \in 1..n |-> n - i], [i \in 1..n |-> i]}

RoadLengths == {0, 1}

\* line strings <<x1, x2>> that start at 0..MaxCoord-1; length 0 is degenerate
LineStrings == {<<a, a + len>> : a \in 0..(MaxCoord - 1), len \in RoadLengths}

\* road frames of n rows: unique segment_id 1..n in row order
RoadFramesOf(n) ==
    {[crs |-> RoadsCrs,
      rows |-> [i \in 1..n |->
                  [label |-> idx[i], segment_id |-> i, geometry |-> geo[i]]]] :
        idx \in RowLabels(n), geo \in [1..n -> LineStrings]}

RoadFrames == UNION {RoadFramesOf(n) : n \in 1..MaxRoads}

TreeColumns == {"canopy_dia_m", "CO2_sequestered_kg", "botanical_name", "geometry"}

\* a tree row standing at point p of the roads' system, given in system crs
TreeRows(crs) ==
    {[canopy_dia_m |-> dia, CO2_sequestered_kg |-> sp[2], botanical_name |-> sp[1],
      geometry |-> Transform(p, RoadsCrs, crs)] :
        dia \in CanopyDiameters, sp \in Species, p \in 0..MaxCoord}

TreeFramesOf(m, crs) ==
    {[crs |-> crs, columns |-> TreeColumns, rows |-> rows] :
        rows \in [1..m -> TreeRows(crs)]}

TreeFrames == UNION {TreeFramesOf(m, crs) : m \in 0..MaxTrees, crs \in {RoadsCrs, OtherCrs}}

NoFrame == [crs |-> "", columns |-> {}, rows |-> <<>>]

Init ==
    /\ roads_gdf \in RoadFrames
    /\ \E t \in TreeFrames : trees_obj = [caller |-> t, local |-> NoFrame]
    /\ trees_gdf = "caller"
    /\ buffer_size_meters \in BufferSizes
    /\ road_buffers = <<>>
    /\ joined_gdf = <<>>
    /\ eco_scores = <<>>
    /\ roads_with_scores = <<>>
    /\ pc = "crs"

-----------------------------------------------------------------------------
(* The steps of the function body *)

\* lines 25-27: rebind trees_gdf to a re-projected copy when the systems differ
AlignCrs ==
    /\ pc = "crs"
    /\ IF roads_gdf.crs # trees_obj[trees_gdf].crs
       THEN /\ trees_obj' = [trees_obj EXCEPT
                               !.local = to_crs(trees_obj[trees_gdf], roads_gdf.crs)]
            /\ trees_gdf' = "local"
       ELSE UNCHANGED <<trees_obj, trees_gdf>>
    /\ pc' = "buffer"
    /\ UNCHANGED <<roads_gdf, buffer_size_meters, road_buffers, joined_gdf,
                   eco_scores, roads_with_scores>>

\* lines 30-32: a copy of two road columns (row labels kept), buffered, with area
BufferRoads ==
    /\ pc = "buffer"
    /\ road_buffers' =
         [i \in DOMAIN roads_gdf.rows |->
            LET r == roads_gdf.rows[i]
                g == buffer(r.geometry, buffer_size_meters)
            IN [label |-> r.label, segment_id |-> r.segment_id,
                geometry |-> g, buffer_area_sq_m |-> area(g)]]
    /\ pc' = "trees"
    /\ UNCHANGED <<roads_gdf, trees_obj, trees_gdf, buffer_size_meters,
                   joined_gdf, eco_scores, roads_with_scores>>

\* np.pi * (dia / 2)**2
canopy_area(dia) == FMul(Num(PiNum, PiDen), Num(dia * dia, 4))

\* line 35: a column is set on the object trees_gdf names
TreeProperties ==
    /\ pc = "trees"
    /\ trees_obj' =
         [trees_obj EXCEPT ![trees_gdf] =
            [@ EXCEPT
               !.columns = @ \cup {"canopy_area_sq_m"},
               !.rows = [i \in DOMAIN @ |->
                           @[i] @@ [canopy_area_sq_m |-> canopy_area(@[i].canopy_dia_m)]]]]
    /\ pc' = "sjoin"
    /\ UNCHANGED <<roads_gdf, trees_gdf, buffer_size_meters, road_buffers,
                   joined_gdf, eco_scores, roads_with_scores>>

\* the joined row of tree row t (at position i) and buffer row b
JoinedRow(i, t, b) ==
    [tree |-> i, index_right |-> b.label, segment_id |-> b.segment_id,
     canopy_area_sq_m |-> t.canopy_area_sq_m,
     CO2_sequestered_kg |-> t.CO2_sequestered_kg,
     botanical_name |-> t.botanical_name]

\* gpd.sjoin(trees, buffers, how='inner', predicate='within'): one row for
\* every (tree, buffer) pair whose point is within the polygon
sjoin(trees, buffers) ==
    LET n == Len(buffers)
        pairs == [k \in 1..(Len(trees) * n) |-> <<((k - 1) \div n) + 1, ((k - 1) % n) + 1>>]
        hit(p) == within(trees[p[1]].geometry, buffers[p[2]].geometry)
        hits == SelectSeq(pairs, hit)
    IN [k \in DOMAIN hits |-> JoinedRow(hits[k][1], trees[hits[k][1]], buffers[hits[k][2]])]

\* line 38
SpatialJoin ==
    /\ pc = "sjoin"
    /\ joined_gdf' = sjoin(trees_obj[trees_gdf].rows, road_buffers)
    /\ pc' = "agg"
    /\ UNCHANGED <<roads_gdf, trees_obj, trees_gdf, buffer_size_meters,
                   road_buffers, eco_scores, roads_with_scores>>

\* groupby('segment_id').agg(sum, sum, nunique): one entry per key that occurs
groupby_agg(joined) ==
    [sid \in {r.segment_id : r \in Range(joined)} |->
        LET grp == SelectSeq(joined, LAMBDA r : r.segment_id = sid)
        IN [canopy_area_sq_m |-> FSum([k \in DOMAIN grp |-> grp[k].canopy_area_sq_m]),
            s_co2_total |-> FSum([k \in DOMAIN grp |-> Flt(grp[k].CO2_sequestered_kg)]),
            s_bio_count |-> Flt(Cardinality({r.botanical_name : r \in Range(grp)}))]]

\* lines 41-46
Aggregate ==
    /\ pc = "agg"
    /\ eco_scores' = groupby_agg(joined_gdf)
    /\ pc' = "merge"
    /\ UNCHANGED <<roads_gdf, trees_obj, trees_gdf, buffer_size_meters,
                   road_buffers, joined_gdf, roads_with_scores>>

AggColumns == {"canopy_area_sq_m", "s_co2_total", "s_bio_count"}

\* DataFrame.merge(right, on='segment_id', how=...): the result is labelled
\* 0..n-1 anew; a left row without a match gets NaN in the right's columns
MergeInner(left, right) ==
    LET kept == SelectSeq(left, LAMBDA r : r.segment_id \in DOMAIN right)
    IN [i \in DOMAIN kept |->
          [label |-> i - 1, segment_id |-> kept[i].segment_id,
           geometry |-> kept[i].geometry] @@ right[kept[i].segment_id]]

merge(left, right) ==
    [i \in DOMAIN left |->
       [label |-> i - 1, segment_id |-> left[i].segment_id,
        geometry |-> left[i].geometry] @@
       (IF left[i].segment_id \in DOMAIN right
        THEN right[left[i].segment_id]
        ELSE [c \in AggColumns |-> NaN])]

\* DataFrame.fillna(0) on the float columns
fillna(rows) ==
    [i \in DOMAIN rows |->
       [c \in DOMAIN rows[i] |->
          IF c \in AggColumns /\ IsNaN(rows[i][c]) THEN Zero ELSE rows[i][c]]]

\* line 49
MergeScores ==
    /\ pc = "merge"
    /\ roads_with_scores' = fillna(merge(roads_gdf.rows, eco_scores))
    /\ pc' = "raw"
    /\ UNCHANGED <<roads_gdf, trees_obj, trees_gdf, buffer_size_meters,
                   road_buffers, joined_gdf, eco_scores>>

\* Series / Series: the operands are aligned on their row labels, and a label
\* of the result frame that the divisor lacks yields NaN
aligned_div(rows, col, others, other_col) ==
    [i \in DOMAIN rows |->
       LET match == {j \in DOMAIN others : others[j].label = rows[i].label}
       IN IF match = {} THEN NaN
          ELSE FDiv(rows[i][col], others[CHOOSE j \in match : TRUE][other_col])]

\* lines 52-54
RawScores ==
    /\ pc = "raw"
    /\ LET s_canopy == aligned_div(roads_with_scores, "canopy_area_sq_m",
                                   road_buffers, "buffer_area_sq_m")
       IN roads_with_scores' =
            [i \in DOMAIN roads_with_scores |->
               LET r == roads_with_scores[i]
               IN r @@ [s_canopy |-> s_canopy[i],
                        s_co2 |-> FDiv(r.s_co2_total, length(r.geometry)),
                        s_bio |-> log1p(r.s_bio_count)]]
    /\ pc' = "norm"
    /\ UNCHANGED <<roads_gdf, trees_obj, trees_gdf, buffer_size_meters,
                   road_buffers, joined_gdf, eco_scores>>

\* Series.rank(pct=True): the average rank among the values that are not NaN,
\* divided by their number; NaN stays NaN
rank_pct(v) ==
    LET valid == {j \in DOMAIN v : ~IsNaN(v[j])}
    IN [i \in DOMAIN v |->
          IF IsNaN(v[i]) THEN NaN
          ELSE LET less == Cardinality({j \in valid : FLess(v[j], v[i])})
                   same == Cardinality({j \in valid : v[j] = v[i]})
               IN Num(2 * less + same + 1, 2 * Cardinality(valid))]

Column(rows, col) == [i \in DOMAIN rows |-> rows[i][col]]

\* lines 57-58
Normalize ==
    /\ pc = "norm"
    /\ LET a == rank_pct(Column(roads_with_scores, "s_canopy"))
           b == rank_pct(Column(roads_with_scores, "s_co2"))
           c == rank_pct(Column(roads_with_scores, "s_bio"))
       IN roads_with_scores' =
            [i \in DOMAIN roads_with_scores |->
               roads_with_scores[i] @@
                 [s_canopy_norm |-> a[i], s_co2_norm |-> b[i], s_bio_norm |-> c[i]]]
    /\ pc' = "composite"
    /\ UNCHANGED <<roads_gdf, trees_obj, trees_gdf, buffer_size_meters,
                   road_buffers, joined_gdf, eco_scores>>

\* 0.5*a + 0.3*b + 0.2*c
static_eqs(a, b, c) ==
    FAdd(FAdd(FMul(Num(5, 10), a), FMul(Num(3, 10), b)), FMul(Num(2, 10), c))

\* 0.7*a + 0.3*c
serenity_score(a, c) == FAdd(FMul(Num(7, 10), a), FMul(Num(3, 10), c))

\* lines 62-68
Composite ==
    /\ pc = "composite"
    /\ roads_with_scores' =
         [i \in DOMAIN roads_with_scores |->
            LET r == roads_with_scores[i]
            IN r @@ [static_eqs |-> static_eqs(r.s_canopy_norm, r.s_co2_norm, r.s_bio_norm),
                     serenity_score |-> serenity_score(r.s_canopy_norm, r.s_bio_norm)]]
    /\ pc' = "return"
    /\ UNCHANGED <<roads_gdf, trees_obj, trees_gdf, buffer_size_meters,
                   road_buffers, joined_gdf, eco_scores>>

\* line 70
Return ==
    /\ pc = "return"
    /\ pc' = "done"
    /\ UNCHANGED <<roads_gdf, trees_obj, trees_gdf, buffer_size_meters,
                   road_buffers, joined_gdf, eco_scores, roads_with_scores>>

Next ==
    \/ AlignCrs
    \/ BufferRoads
    \/ TreeProperties
    \/ SpatialJoin
    \/ Aggregate
    \/ MergeScores
    \/ RawScores
    \/ Normalize
    \/ Composite
    \/ Return

Spec == Init /\ [][Next]_vars

-----------------------------------------------------------------------------
(* Properties *)

AfterMerge == {"raw", "norm", "composite", "return", "done"}

\* the rows of the result that carry segment_id sid
ResultRows(sid) == {j \in DOMAIN roads_with_scores : roads_with_scores[j].segment_id = sid}

\* the point of a tree row of the caller's frame, in the roads' system
TreePoint(t) == Transform(t.geometry, trees_obj.caller.crs, roads_gdf.crs)

\* the distance from a point of the axis to a line string on it
Distance(p, line) ==
    IF p < line[1] THEN line[1] - p ELSE IF p > line[2] THEN p - line[2] ELSE 0

\* the caller's trees that lie strictly inside the buffer of a line string
TreesInside(line) ==
    SelectSeq(trees_obj.caller.rows,
              LAMBDA t : Distance(TreePoint(t), line) < buffer_size_meters)

\* the area of the buffer built from the segment sid
BufferAreaOf(sid) ==
    LET j == CHOOSE j \in DOMAIN road_buffers : road_buffers[j].segment_id = sid
    IN road_buffers[j].buffer_area_sq_m

\* a < b as IEEE compares: false when either is NaN
StrictlyLess(a, b) == ~IsNaN(a) /\ ~IsNaN(b) /\ FLess(a, b)

InUnitInterval(a) == a.k = "num" /\ 0 < a.n /\ a.n <= a.d

\* C1: the result has exactly one row per input road segment, also for a
\* segment with no joined tree: no segment is dropped, none is duplicated.
C1_OneRowPerSegment ==
    pc \in AfterMerge =>
        /\ Len(roads_with_scores) = Len(roads_gdf.rows)
        /\ \A i \in DOMAIN roads_gdf.rows :
              Cardinality(ResultRows(roads_gdf.rows[i].segment_id)) = 1

\* C1 witness: a finished call on two segments, one with a tree inside its
\* buffer and one with none.
C1_Witness ==
    /\ pc = "done"
    /\ Len(roads_gdf.rows) = 2
    /\ TreesInside(roads_gdf.rows[1].geometry) = <<>>
    /\ TreesInside(roads_gdf.rows[2].geometry) # <<>>

\* C2: the aggregates of every segment are taken over exactly the trees that
\* lie strictly inside its buffer: the sum of their canopy areas, the sum of
\* their CO2 values and the number of their distinct names (case-sensitive);
\* a tree inside several buffers counts for each of them.
C2_AggregatesOverTreesInside ==
    pc \in AfterMerge =>
        \A i \in DOMAIN roads_gdf.rows :
            LET ts == TreesInside(roads_gdf.rows[i].geometry)
                rs == ResultRows(roads_gdf.rows[i].segment_id)
            IN /\ rs # {}
               /\ \A j \in rs :
                    /\ roads_with_scores[j].canopy_area_sq_m =
                         FSum([k \in DOMAIN ts |->
                                 Num(PiNum * ts[k].canopy_dia_m * ts[k].canopy_dia_m,
                                     4 * PiDen)])
                    /\ roads_with_scores[j].s_co2_total =
                         FSum([k \in DOMAIN ts |-> Flt(ts[k].CO2_sequestered_kg)])
                    /\ roads_with_scores[j].s_bio_count =
                         Flt(Cardinality({ts[k].botanical_name : k \in DOMAIN ts}))

\* C2 witness: a finished call with two trees inside the buffers of both
\* segments, their names differing, and with a tree on a buffer's boundary.
C2_Witness ==
    /\ pc = "done"
    /\ Len(roads_gdf.rows) = 2
    /\ buffer_size_meters > 0
    /\ \E a, b \in DOMAIN trees_obj.caller.rows :
          LET ta == trees_obj.caller.rows[a]
              tb == trees_obj.caller.rows[b]
          IN /\ ta.botanical_name # tb.botanical_name
             /\ \A i \in 1..2 :
                   Distance(TreePoint(ta), roads_gdf.rows[i].geometry) < buffer_size_meters
             /\ Distance(TreePoint(tb), roads_gdf.rows[1].geometry) < buffer_size_meters
             /\ Distance(TreePoint(tb), roads_gdf.rows[2].geometry) = buffer_size_meters

\* C3: a segment with no joined tree has raw scores s_canopy = 0, s_co2 = 0
\* and s_bio = ln(1) = 0.
C3_ZeroTreesZeroScores ==
    pc = "done" =>
        \A i \in DOMAIN roads_gdf.rows :
            TreesInside(roads_gdf.rows[i].geometry) = <<>> =>
                \A j \in ResultRows(roads_gdf.rows[i].segment_id) :
                    /\ roads_with_scores[j].s_canopy = Zero
                    /\ roads_with_scores[j].s_co2 = Zero
                    /\ roads_with_scores[j].s_bio = Zero

\* the average rank of v[i] among all the values of v, over their number
AverageRankFraction(v, i) ==
    Num(2 * Cardinality({j \in DOMAIN v : StrictlyLess(v[j], v[i])})
          + Cardinality({j \in DOMAIN v : v[j] = v[i]}) + 1,
        2 * Len(v))

\* C4: each normalized value is the segment's average rank (ties share the
\* average rank of their group) over the number of segments; it lies in
\* (0, 1], a strictly larger raw value never gets a smaller normalized value,
\* and a unique maximum maps to 1.
C4_PercentileRank ==
    pc = "done" =>
        \A col \in {"s_canopy", "s_co2", "s_bio"} :
            LET v == [i \in DOMAIN roads_with_scores |-> roads_with_scores[i][col]]
                w == [i \in DOMAIN roads_with_scores |->
                        IF col = "s_canopy" THEN roads_with_scores[i].s_canopy_norm
                        ELSE IF col = "s_co2" THEN roads_with_scores[i].s_co2_norm
                        ELSE roads_with_scores[i].s_bio_norm]
            IN \A i \in DOMAIN v :
                  /\ InUnitInterval(w[i])
                  /\ w[i] = AverageRankFraction(v, i)
                  /\ \A j \in DOMAIN v : StrictlyLess(v[i], v[j]) => ~StrictlyLess(w[j], w[i])
                  /\ (\A j \in DOMAIN v : j # i => StrictlyLess(v[j], v[i])) => w[i] = One

\* C5: static_eqs = 0.5*s_canopy_norm + 0.3*s_co2_norm + 0.2*s_bio_norm and
\* serenity_score = 0.7*s_canopy_norm + 0.3*s_bio_norm, both in (0, 1].
C5_CompositeScores ==
    pc = "done" =>
        \A i \in DOMAIN roads_with_scores :
            LET r == roads_with_scores[i]
            IN /\ r.static_eqs =
                    FAdd(FAdd(FMul(Num(1, 2), r.s_canopy_norm),
                              FMul(Num(3, 10), r.s_co2_norm)),
                         FMul(Num(1, 5), r.s_bio_norm))
               /\ r.serenity_score =
                    FAdd(FMul(Num(7, 10), r.s_canopy_norm), FMul(Num(3, 10), r.s_bio_norm))
               /\ InUnitInterval(r.static_eqs)
               /\ InUnitInterval(r.serenity_score)

\* C6: with a negative canopy diameter among the trees the call fails before
\* the spatial join runs, so it never gets past the join.
C6_NegativeDiameterRejected ==
    (\E k \in DOMAIN trees_obj.caller.rows : trees_obj.caller.rows[k].canopy_dia_m < 0)
        => pc \in {"crs", "buffer", "trees", "sjoin"}

\* C7: a segment of zero length or of zero buffer area ends with raw scores
\* s_canopy = 0 and s_co2 = 0, whatever trees are joined to it.
C7_DegenerateSegmentScoresZero ==
    pc = "done" =>
        \A j \in DOMAIN roads_with_scores :
            LET r == roads_with_scores[j]
            IN (r.geometry[1] = r.geometry[2] \/ BufferAreaOf(r.segment_id) = Zero) =>
                  /\ r.s_canopy = Zero
                  /\ r.s_co2 = Zero

\* C8: with a buffer distance that is not positive the call fails before any
\* buffering, so it never gets past its first step.
C8_NonPositiveBufferRejected ==
    buffer_size_meters <= 0 => pc \in {"crs", "buffer"}

\* C9: every row's s_canopy is its total canopy area divided by the area of
\* the buffer built from the same segment, whatever the roads' row labels.
C9_CanopyOverOwnBuffer ==
    pc = "done" =>
        \A j \in DOMAIN roads_with_scores :
            LET r == roads_with_scores[j]
            IN r.s_canopy = FDiv(r.canopy_area_sq_m, BufferAreaOf(r.segment_id))

\* C10: no step of the call changes the caller's tree frame or road frame.
C10_InputsUnchanged ==
    [][trees_obj'.caller = trees_obj.caller /\ roads_gdf' = roads_gdf]_vars

====
